---- MODULE Spec2Model ----
(***************************************************************************)
(* aloadimage: the playlist scheduler (poll_pl, try_dispatch,              *)
(* set_playlist_pos), the interactive loop of main with dispatch_event,    *)
(* the resize negotiation of set_active and the pad-colour path of blit.   *)
(*                                                                         *)
(* The decode worker (imgload_spawn / imgload_poll / imgload_reset) and    *)
(* the display session (arcan_shmif) are collaborators whose code is not   *)
(* part of aloadimage.c; they are modelled at their interface.             *)
(***************************************************************************)
EXTENDS Integers, Sequences, FiniteSets, TLC

\* ---------------------------------------------------------------- bounds
\* ds.timeout and ds.init_timer are counted in 200 ms ticks (lines 502, 505
\* and 538-544); main stores strtoul(optarg) * 5 in an int.
MaxSlots == 2      \* playlist sizes 1..MaxSlots (SpecWide: MaxSlots + 1)
MaxLim == 2        \* prefetch window limits 1..MaxLim             (-r)
MaxTimeout == 2    \* worker timeout in ticks: none or MaxTimeout  (-T)
MaxTimer == 2      \* auto-advance periods in ticks 1..MaxTimer    (-t)
MaxPending == 4    \* handlers that take wnd_pending beyond it are cut
MaxDim == 8        \* decoded image width / height 0..MaxDim
MaxHint == 1       \* DISPLAYHINT width / height 0..MaxHint
MaxFb == 4         \* framebuffer width / height 1..MaxFb (blit)

VARIABLES
  ds,        \* struct draw_state (the scalar fields the scheduler uses)
  playlist,  \* struct img_state playlist[], indexed 0..pl_size-1
  con,       \* struct arcan_shmif_cont: addr (mapped) and what it shows
  pc,        \* position of main
  dirty,     \* main's local 'dirty' of the current loop turn
  lastop,    \* the handler that ran last
  attempts,  \* slots passed to try_dispatch by the handler that ran last
  spawned,   \* slots passed to imgload_spawn by the handler that ran last
  age,       \* per slot: 0xfeed ticks delivered since its dispatch
  rs,        \* the resize loop of set_active: w, h, dw, dh, iters, pc
  resized,   \* <<w, h>> of each arcan_shmif_resize call of the last handler
  fb         \* the segment blit draws into: w, h, pitch, vidp, signalled

vars == <<ds, playlist, con, pc, dirty, lastop, attempts, spawned, age, rs,
          resized, fb>>

Slots(n) == 0 .. (n - 1)

\* the three outcomes of evaluating out->ready through a NULL out
UBOutcomes == {"fault", "taken", "skipped"}

\* a slot as main builds it (fname and is_stdin set, everything else zero)
img_state(stdin) ==
  [out |-> FALSE, ready |-> FALSE, proc |-> FALSE, life |-> 0,
   is_stdin |-> stdin, broken |-> FALSE]

\* what waitpid(WNOHANG) reports for a slot's decode process: still
\* running, exited with an image, exited with a failure
WaitStatus == {"run", "ok", "bad"}

\* the working state the handlers are computed on; wk is what the decode
\* processes report when the handler polls them
State(wk) ==
  [ds |-> ds, pl |-> playlist, wk |-> wk, con |-> con, fault |-> FALSE,
   att |-> <<>>, spw |-> <<>>, age |-> age, rsz |-> <<>>]

\* ------------------------------------------------------- decode worker
\* imgload_spawn succeeded: a fresh non-ready output is attached and a
\* process runs
imgload_spawn(s, ind) ==
  [s EXCEPT !.pl[ind].out = TRUE, !.pl[ind].ready = FALSE,
            !.pl[ind].proc = TRUE, !.pl[ind].broken = FALSE,
            !.wk[ind] = "run"]

\* imgload_poll: true when output is attached (ready or broken); reaps a
\* process that has exited
imgload_poll_ret(s, ind) ==
  \/ s.pl[ind].proc /\ s.wk[ind] \in {"ok", "bad"}
  \/ ~s.pl[ind].proc /\ s.pl[ind].out /\ (s.pl[ind].ready \/ s.pl[ind].broken)

imgload_poll(s, ind) ==
  IF s.pl[ind].proc /\ s.wk[ind] \in {"ok", "bad"}
  THEN [s EXCEPT !.pl[ind].proc = FALSE,
                 !.pl[ind].ready = (s.wk[ind] = "ok"),
                 !.pl[ind].broken = (s.wk[ind] = "bad"),
                 !.wk[ind] = "run",
                 !.age[ind] = -1]
  ELSE s

\* imgload_reset: kill the process and release the output
imgload_reset(s, ind) ==
  [s EXCEPT !.pl[ind].proc = FALSE, !.pl[ind].out = FALSE,
            !.pl[ind].ready = FALSE, !.wk[ind] = "run"]

\* ------------------------------------------------------------- poll_pl
\* the timeout branch, lines 166-173
TickSlot(s, i) ==
  LET s1 == [s EXCEPT !.pl[i].life = @ - 1]
  IN IF s1.pl[i].life = 0 /\ ~s1.pl[i].ready
     THEN [imgload_reset(s1, i) EXCEPT !.pl[i].life = -1]
     ELSE s1

\* the completion branch, lines 158-163
ReapSlot(s, i) ==
  LET s1 == imgload_poll(s, i)
  IN [s1 EXCEPT !.ds.stdin_pending = IF s1.pl[i].is_stdin THEN FALSE ELSE @,
                !.pl[i].life = 0,
                !.ds.wnd_pending = @ - 1]

\* one iteration of the loop body, lines 157-174
PollSlot(s, i, step) ==
  IF s.pl[i].out /\ s.pl[i].proc
  THEN IF imgload_poll_ret(s, i) THEN ReapSlot(s, i)
       ELSE IF step /\ s.pl[i].life > 0 THEN TickSlot(s, i)
       ELSE s
  ELSE s

RECURSIVE PollFrom(_, _, _)
PollFrom(s, i, step) ==
  IF i < s.ds.pl_size /\ s.ds.wnd_pending # 0
  THEN PollFrom(PollSlot(s, i, step), i + 1, step)
  ELSE s

\* a 0xfeed tick ages every slot whose worker is still running; the age is
\* kept up to the timeout
AgeSlots(s) ==
  [s EXCEPT !.age = [i \in DOMAIN s.age |->
      IF s.age[i] >= 0 /\ s.age[i] < s.ds.timeout /\ s.pl[i].proc
         /\ s.wk[i] = "run"
      THEN s.age[i] + 1 ELSE s.age[i]]]

poll_pl(s, step) ==
  IF s.fault THEN s
  ELSE PollFrom(IF step THEN AgeSlots(s) ELSE s, 0, step)

\* --------------------------------------------------------- try_dispatch
\* line 185-186 with out != NULL or the first disjunct true
DispatchCond(sl) ==
  \/ ~sl.out /\ sl.life >= 0
  \/ sl.out /\ ~sl.ready /\ sl.proc

\* line 186 evaluated with out == NULL: the first disjunct is false and
\* out->ready is read through a NULL pointer
NullDeref(sl) == ~sl.out /\ sl.life < 0

\* mutation: the shared-stream check of line 188 left out
StdinNeverBlocked(s, ind) == FALSE

\* line 188
StdinBlocked(s, ind) == s.pl[ind].is_stdin /\ s.ds.stdin_pending

\* lines 191-198, imgload_spawn called; ok is its result
SpawnSlot(s, ind, ok) ==
  LET s0 == [s EXCEPT !.spw = Append(@, ind)]
  IN IF ok
     THEN LET fresh == ~s0.pl[ind].proc
              s1 == imgload_spawn(s0, ind)
          IN [s1 EXCEPT !.ds.stdin_pending =
                            IF s1.pl[ind].is_stdin THEN TRUE ELSE @,
                        !.ds.wnd_pending = @ + 1,
                        !.pl[ind].life = s1.ds.timeout,
                        !.age[ind] = IF fresh THEN 0 ELSE @]
     ELSE s0

\* sp: the slots for which imgload_spawn succeeds now; ub: what the NULL
\* dereference does in this build
try_dispatch(s, ind, sp, ub) ==
  LET sl == s.pl[ind]
      s0 == [s EXCEPT !.att = Append(@, ind)]
      enter == IF NullDeref(sl) THEN ub = "taken" ELSE DispatchCond(sl)
  IN IF NullDeref(sl) /\ ub = "fault" THEN [s0 EXCEPT !.fault = TRUE]
     ELSE IF enter /\ ~StdinBlocked(s0, ind)
          THEN SpawnSlot(s0, ind, ind \in sp)
          ELSE s0

\* ----------------------------------------------------- set_playlist_pos
NoIndex == -1

\* mutation: the wrap of line 211 going to pl_size instead of pl_size - 1
RangeCheckPastEnd(i, n, loop) ==
  IF i < 0 THEN n
  ELSE IF i >= n THEN (IF loop THEN 0 ELSE NoIndex)
  ELSE i

\* lines 210-218: the index to make active, or NoIndex for 'return NULL'
RangeCheck(i, n, loop) ==
  IF i < 0 THEN n - 1
  ELSE IF i >= n THEN (IF loop THEN 0 ELSE NoIndex)
  ELSE i

\* mutation: the cursor of line 227 stepping backwards
NextCursorBack(i, n) == (i + n - 1) % n

\* line 227
NextCursor(i, n) == (i + 1) % n

\* line 228-229
FillMore(s, i) ==
  /\ s.pl[s.ds.pl_ind].out
  /\ s.ds.wnd_pending < s.ds.wnd_lim
  /\ i # s.ds.pl_ind

\* mutation: the do-while of lines 225-229 as a loop that tests the window
\* before its first dispatch
FillWindowIfRoom(s, i, sp, ub) ==
  IF s.ds.wnd_pending < s.ds.wnd_lim THEN try_dispatch(s, i, sp, ub) ELSE s

\* lines 225-229
RECURSIVE FillWindow(_, _, _, _)
FillWindow(s, i, sp, ub) ==
  LET s1 == try_dispatch(s, i, sp, ub)
      n == NextCursor(i, s.ds.pl_size)
  IN IF s1.fault THEN s1
     ELSE IF FillMore(s1, n) THEN FillWindow(s1, n, sp, ub)
     ELSE s1

\* an index outside the playlist array is an out-of-bounds access
InPlaylist(s, i) == i \in DOMAIN s.pl

\* the state after the call; ds.cur is assigned by the caller
\* (ret: the returned pointer is not NULL)
set_playlist_pos(s, i, sp, ub) ==
  LET s1 == poll_pl(s, FALSE)
      j == RangeCheck(i, s.ds.pl_size, s.ds.loop)
  IN IF s1.fault THEN [s |-> s1, ret |-> FALSE]
     ELSE IF j = NoIndex THEN [s |-> s1, ret |-> FALSE]
     ELSE IF ~InPlaylist(s1, j)
          THEN [s |-> [s1 EXCEPT !.ds.pl_ind = j, !.fault = TRUE],
                ret |-> FALSE]
     ELSE [s |-> FillWindow([s1 EXCEPT !.ds.pl_ind = j], j, sp, ub),
           ret |-> TRUE]

\* what the segment shows: nothing yet, the pad colour, or a slot's image
NoFrame == [kind |-> "none", ind |-> 0]
PadFrame == [kind |-> "pad", ind |-> 0]
Frame(i) == [kind |-> "image", ind |-> i]

\* ----------------------------------------------------------- set_active
\* lines 242-278; the resize negotiation of lines 263-274 is modelled step
\* by step by ResizeTry / ResizeHalve below
set_active(s) ==
  IF ~s.ds.cur THEN s
  ELSE IF s.pl[s.ds.pl_ind].proc THEN [s EXCEPT !.ds.loaded = FALSE]
  ELSE IF s.pl[s.ds.pl_ind].broken THEN [s EXCEPT !.ds.loaded = TRUE]
  ELSE [s EXCEPT !.ds.loaded = TRUE, !.con.shown = Frame(s.ds.pl_ind)]

\* ----------------------------------------------------- the label table
\* lines 280-284; the result is [s, ret]
step_next(s, sp, ub) ==
  LET r == set_playlist_pos(s, s.ds.pl_ind + 1, sp, ub)
  IN [s |-> [r.s EXCEPT !.ds.cur = r.ret], ret |-> TRUE]

\* lines 286-290
step_prev(s, sp, ub) ==
  LET r == set_playlist_pos(s, s.ds.pl_ind - 1, sp, ub)
  IN [s |-> [r.s EXCEPT !.ds.cur = r.ret], ret |-> TRUE]

\* lines 292-298
source_size(s) ==
  [s |-> [s EXCEPT !.ds.source_size = TRUE], ret |-> FALSE]

\* lines 300-308; acc: arcan_shmif_resize accepts the request
server_size(s, acc) ==
  IF s.ds.source_size
  THEN [s |-> [s EXCEPT !.ds.source_size = FALSE,
                        !.rsz = Append(@, <<s.ds.out_w, s.ds.out_h>>)],
        ret |-> acc]
  ELSE [s |-> s, ret |-> FALSE]

\* lines 310-318
zoom_out(s) == [s |-> s, ret |-> TRUE]
zoom_in(s) == [s |-> s, ret |-> TRUE]

\* lines 320-323
pl_toggle(s) == [s |-> s, ret |-> FALSE]

\* lines 325-329
aspect_ratio(s) ==
  [s |-> [s EXCEPT !.ds.aspect_ratio = ~@], ret |-> TRUE]

\* lines 331-341: the labels and their default keysyms
Labels ==
  {"PREV", "NEXT", "PL_TOGGLE", "SOURCE_SIZE", "SERVER_SIZE",
   "ASPECT_TOGGLE", "ZOOM_IN", "ZOOM_OUT"}

defsym(lbl) ==
  CASE lbl = "PREV" -> "TUIK_H"
    [] lbl = "NEXT" -> "TUIK_L"
    [] lbl = "PL_TOGGLE" -> "TUIK_SPACE"
    [] lbl = "SOURCE_SIZE" -> "TUIK_F5"
    [] lbl = "SERVER_SIZE" -> "TUIK_F6"
    [] lbl = "ASPECT_TOGGLE" -> "TUIK_TAB"
    [] lbl = "ZOOM_IN" -> "TUIK_F1"
    [] lbl = "ZOOM_OUT" -> "TUIK_F2"

\* the table's ptr member, called
lent_ptr(s, lbl, sp, ub, acc) ==
  CASE lbl = "PREV" -> step_prev(s, sp, ub)
    [] lbl = "NEXT" -> step_next(s, sp, ub)
    [] lbl = "PL_TOGGLE" -> pl_toggle(s)
    [] lbl = "SOURCE_SIZE" -> source_size(s)
    [] lbl = "SERVER_SIZE" -> server_size(s, acc)
    [] lbl = "ASPECT_TOGGLE" -> aspect_ratio(s)
    [] lbl = "ZOOM_IN" -> zoom_in(s)
    [] lbl = "ZOOM_OUT" -> zoom_out(s)

\* no table entry (the NULL result of find_label / find_sym), the empty
\* label, and keysym 0
NoLent == "NULL"
NoLabel == ""
NoSym == "0"

\* lines 343-352
find_label(label) == IF label \in Labels THEN label ELSE NoLent

\* lines 354-367
find_sym(sym) ==
  IF sym = NoSym THEN NoLent
  ELSE IF \E l \in Labels : defsym(l) = sym
       THEN CHOOSE l \in Labels : defsym(l) = sym
       ELSE NoLent

\* ------------------------------------------------------- dispatch_event
\* mutation: the non_interactive test of line 373 left out
InputNeverBlocked(s) == FALSE

\* line 373
InputBlocked(s) == s.ds.non_interactive

\* EVENT_IO, lines 372-396; e: devkind, datatype, active, label, keysym
io_event(s, e, sp, ub, acc) ==
  LET ignored == [s |-> s, ret |-> FALSE]
      call(l) == IF l # NoLent THEN lent_ptr(s, l, sp, ub, acc) ELSE ignored
  IN IF InputBlocked(s) THEN ignored
     ELSE IF e.devkind = "mouse" THEN ignored
     ELSE IF e.datatype = "digital"
          THEN IF ~e.active \/ e.label = NoLabel THEN ignored
               ELSE call(find_label(e.label))
     ELSE IF e.datatype = "translated"
          THEN IF ~e.active THEN ignored
               ELSE call(IF e.label # NoLabel THEN find_label(e.label)
                         ELSE find_sym(e.keysym))
     ELSE ignored

\* a digital press carrying a label
Press(lbl) ==
  [devkind |-> "key", datatype |-> "digital", active |-> TRUE,
   label |-> lbl, keysym |-> NoSym]

\* mutation: the size-authority test of line 401 left out
displayhint_always(s, w, h, acc) ==
  IF w # 0 /\ h # 0
  THEN [s |-> [s EXCEPT !.rsz = Append(@, <<w, h>>)], ret |-> acc]
  ELSE [s |-> s, ret |-> FALSE]

\* TARGET_COMMAND_DISPLAYHINT, lines 399-405; w, h: ioevs[0].iv, ioevs[1].iv
displayhint(s, w, h, acc) ==
  IF w # 0 /\ h # 0 /\ ~s.ds.source_size
  THEN [s |-> [s EXCEPT !.rsz = Append(@, <<w, h>>)], ret |-> acc]
  ELSE [s |-> s, ret |-> FALSE]

\* TARGET_COMMAND_STEPFRAME, lines 406-416; feed: ioevs[1].iv == 0xfeed
AutoAdvance(s, sp, ub) ==
  IF s.ds.step_timer > 0
  THEN IF s.ds.step_timer = 0
       THEN LET r == set_playlist_pos(
                       [s EXCEPT !.ds.step_timer = s.ds.init_timer],
                       s.ds.pl_ind + 1, sp, ub)
            IN [r.s EXCEPT !.ds.cur = r.ret]
       ELSE s
  ELSE s

stepframe(s, feed, sp, ub) ==
  [s |-> AutoAdvance(IF feed THEN poll_pl(s, TRUE) ELSE s, sp, ub),
   ret |-> FALSE]

\* arcan_shmif_drop: the segment is unmapped and the context cleared
arcan_shmif_drop(s) == [s EXCEPT !.con.addr = FALSE]

\* mutation: line 418 left out
target_exit_keep(s) == [s |-> s, ret |-> FALSE]

\* TARGET_COMMAND_EXIT, lines 417-420
target_exit(s) == [s |-> arcan_shmif_drop(s), ret |-> FALSE]

Events == {"NEXT", "PREV", "STEPFRAME_FEED", "STEPFRAME", "EXIT"}

dispatch_event(s, ev, sp, ub) ==
  CASE ev = "NEXT" -> io_event(s, Press("NEXT"), sp, ub, FALSE)
    [] ev = "PREV" -> io_event(s, Press("PREV"), sp, ub, FALSE)
    [] ev = "STEPFRAME_FEED" -> stepframe(s, TRUE, sp, ub)
    [] ev = "STEPFRAME" -> stepframe(s, FALSE, sp, ub)
    [] ev = "EXIT" -> target_exit(s)

\* ---------------------------------------------------------------- main
\* the state main has built at line 527 from the options and the file list:
\* n files, -r lim, -T giving t ticks, -t giving it ticks, --loop, and st
\* telling which files are "-"
\* ni: -b (block input), ss: source_size, false with -S
ConfigOpts(n, lim, t, it, lp, st, ni, ss) ==
  /\ ds = [pl_ind |-> 0, pl_size |-> n, wnd_lim |-> lim,
           wnd_pending |-> 0, timeout |-> t, stdin_pending |-> FALSE,
           loaded |-> FALSE, cur |-> FALSE, step_timer |-> it,
           init_timer |-> it, loop |-> lp, source_size |-> ss,
           non_interactive |-> ni, aspect_ratio |-> FALSE,
           out_w |-> 0, out_h |-> 0]
  /\ playlist = [i \in Slots(n) |-> img_state(st[i])]
  /\ age = [i \in Slots(n) |-> -1]
  /\ con = [addr |-> FALSE, shown |-> NoFrame]
  /\ dirty = FALSE
  /\ lastop = "init"
  /\ attempts = <<>>
  /\ spawned = <<>>
  /\ resized = <<>>

\* input enabled and the window following the image (no -b, no -S)
ConfigWith(n, lim, t, it, lp, st) ==
  ConfigOpts(n, lim, t, it, lp, st, FALSE, TRUE)

\* no blit in progress
NoBlit ==
  [w |-> 0, h |-> 0, pitch |-> 0, vidp |-> <<>>, stray |-> {}, row |-> 0,
   signalled |-> FALSE, pc |-> "off"]

NoResize ==
  [w |-> 0, h |-> 0, dw |-> 0, dh |-> 0, iters |-> 0, pc |-> "off"]

InitWith(n, lim, t, it, lp, st) ==
  /\ ConfigWith(n, lim, t, it, lp, st)
  /\ pc = "start"
  /\ rs = NoResize
  /\ fb = NoBlit

\* any playlist of up to MaxSlots entries, any of them the shared input
\* stream, with and without a worker timeout; no auto-advance (no -t)
Init ==
  \E n \in 1 .. MaxSlots, lim \in 1 .. MaxLim, t \in {0, MaxTimeout},
     lp \in BOOLEAN :
    \E st \in [Slots(n) -> BOOLEAN] : InitWith(n, lim, t, 0, lp, st)

\* auto-advance configured (-t), files only, no worker timeout
InitAuto ==
  \E n \in 1 .. MaxSlots, lim \in 1 .. MaxLim, it \in 1 .. MaxTimer,
     lp \in BOOLEAN :
    InitWith(n, lim, 0, it, lp, [i \in Slots(n) |-> FALSE])

\* input blocked or not (-b), server or source size (-S), files only, a
\* window of one, --loop, no worker timeout
InitInput ==
  \E n \in 1 .. MaxSlots, ni \in BOOLEAN, ss \in BOOLEAN :
    /\ ConfigOpts(n, 1, 0, 0, TRUE, [i \in Slots(n) |-> FALSE], ni, ss)
    /\ pc = "start"
    /\ rs = NoResize
    /\ fb = NoBlit

\* MaxSlots files, a window of one, --loop, no worker timeout
InitLive ==
  InitWith(MaxSlots, 1, 0, 0, TRUE, [i \in Slots(MaxSlots) |-> FALSE])

\* one more file than MaxSlots with the widest window, files only, no
\* worker timeout
InitWide ==
  \E lp \in BOOLEAN :
    InitWith(MaxSlots + 1, MaxLim, 0, 0, lp,
             [i \in Slots(MaxSlots + 1) |-> FALSE])

\* the inputs of a handler: what each running decode process reports, the
\* slots imgload_spawn succeeds for, and what the NULL dereference does
Running == {i \in DOMAIN playlist : playlist[i].proc}
NoExit == [i \in DOMAIN playlist |-> "run"]
ExitChoices ==
  {wk \in [DOMAIN playlist -> WaitStatus] :
     \A i \in DOMAIN playlist : i \notin Running => wk[i] = "run"}
SpawnChoices(wk) ==
  SUBSET {i \in DOMAIN playlist :
            ~playlist[i].out \/ (playlist[i].proc /\ wk[i] = "run")}
UBChoices == IF \E i \in DOMAIN playlist : NullDeref(playlist[i])
             THEN UBOutcomes ELSE {"fault"}

\* the handler's result becomes the program state; a NULL dereference ends
\* the process
Commit(s, op, next) ==
  /\ s.ds.wnd_pending <= MaxPending
  /\ ds' = s.ds
  /\ playlist' = s.pl
  /\ con' = s.con
  /\ age' = s.age
  /\ attempts' = s.att
  /\ spawned' = s.spw
  /\ resized' = s.rsz
  /\ lastop' = op
  /\ pc' = IF s.fault THEN "crashed" ELSE next
  /\ UNCHANGED <<rs, fb>>

\* lines 529-536: dispatch workers, connect, draw the pad colour
Startup ==
  /\ pc = "start"
  /\ \E sp \in SpawnChoices(NoExit) :
       LET r == set_playlist_pos(State(NoExit), 0, sp, "fault")
       IN Commit([r.s EXCEPT !.ds.cur = r.ret,
                             !.con = [addr |-> TRUE, shown |-> PadFrame]],
                 "startup", "loop")
  /\ UNCHANGED dirty

\* lines 547-556: the poll of the active slot while nothing is loaded
PollActive(s) ==
  IF ~s.ds.loaded /\ imgload_poll_ret(s, s.ds.pl_ind)
  THEN set_active([imgload_poll(s, s.ds.pl_ind) EXCEPT !.ds.loaded = TRUE])
  ELSE s

\* lines 546-557: the loop condition, the poll of the active slot, poll_pl;
\* wk is what the processes report at line 548, wk2 at line 557
LoopHead ==
  /\ pc = "loop"
  /\ IF ds.cur /\ con.addr
     THEN \E wk \in ExitChoices, wk2 \in ExitChoices :
            /\ \A i \in DOMAIN playlist :
                 /\ i # ds.pl_ind => wk[i] = "run"
                 /\ (i = ds.pl_ind /\ wk[i] # "run") => wk2[i] = "run"
            /\ Commit(poll_pl([PollActive(State(wk)) EXCEPT !.wk = wk2],
                              FALSE),
                      "head", "wait")
     ELSE Commit(State(NoExit), "head", "done")
  /\ UNCHANGED dirty

\* lines 561-565: one event of the turn, the blocking one or one of the
\* burst; arcan_shmif_poll yields nothing on a dropped connection
Dispatch(ev) ==
  /\ pc \in {"wait", "burst"}
  /\ con.addr
  /\ \E wk \in ExitChoices :
       \E sp \in SpawnChoices(wk), ub \in UBChoices :
         LET r == dispatch_event(State(wk), ev, sp, ub)
         IN /\ Commit(r.s, ev, "burst")
            /\ dirty' = IF pc = "wait" THEN r.ret ELSE (dirty \/ r.ret)

\* the input events told apart by dispatch_event: mouse or key device,
\* digital / translated / analog data, pressed or released, a table label,
\* an unknown label or none, a table keysym, an unknown keysym or none
IOEvents ==
  {e \in [devkind : {"mouse", "key"},
          datatype : {"digital", "translated", "analog"},
          active : BOOLEAN,
          label : Labels \cup {NoLabel, "BOGUS"},
          keysym : {defsym(l) : l \in Labels} \cup {NoSym, "TUIK_X"}] :
     /\ e.label \in Labels => e.keysym = NoSym
     /\ e.label = "BOGUS" => e.keysym \in {NoSym, "TUIK_L"}
     /\ e.devkind = "mouse" => e.datatype = "analog" /\ e.label = NoLabel
                                /\ e.keysym = NoSym}

\* the events that can reach step_prev / step_next (the handlers that poll
\* and spawn) and server_size (the handler that asks for a resize)
MaySteer(e) ==
  /\ e.active
  /\ \/ e.label \in {"PREV", "NEXT"}
     \/ e.label = NoLabel /\ e.keysym \in {defsym("PREV"), defsym("NEXT")}
MayResize(e) ==
  /\ e.active
  /\ \/ e.label = "SERVER_SIZE"
     \/ e.label = NoLabel /\ e.keysym = defsym("SERVER_SIZE")

\* lines 561-565 for an input event
Input(e) ==
  /\ pc \in {"wait", "burst"}
  /\ con.addr
  /\ \E wk \in IF MaySteer(e) THEN ExitChoices ELSE {NoExit} :
       \E sp \in IF MaySteer(e) THEN SpawnChoices(wk) ELSE {{}},
          ub \in UBChoices,
          acc \in IF MayResize(e) THEN BOOLEAN ELSE {FALSE} :
         LET r == io_event(State(wk), e, sp, ub, acc)
         IN /\ Commit(r.s, "IO", "burst")
            /\ dirty' = IF pc = "wait" THEN r.ret ELSE (dirty \/ r.ret)

\* lines 561-565 for a DISPLAYHINT of w * h
Hint(w, h) ==
  /\ pc \in {"wait", "burst"}
  /\ con.addr
  /\ \E acc \in BOOLEAN :
       LET r == displayhint(State(NoExit), w, h, acc)
       IN /\ Commit(r.s, "DISPLAYHINT", "burst")
          /\ dirty' = IF pc = "wait" THEN r.ret ELSE (dirty \/ r.ret)

\* line 561-562: arcan_shmif_wait fails, the loop breaks
WaitFail ==
  /\ pc = "wait"
  /\ Commit(State(NoExit), "waitfail", "done")
  /\ UNCHANGED dirty

\* line 568
DrawReady(s, d) ==
  /\ d
  /\ s.ds.cur
  /\ s.pl[s.ds.pl_ind].out
  /\ s.pl[s.ds.pl_ind].ready

\* lines 566-570: the burst is drained; poll_pl, then blit when dirty
LoopTail ==
  /\ pc = "burst"
  /\ \E wk \in ExitChoices :
       LET s1 == poll_pl(State(wk), FALSE)
       IN Commit(IF DrawReady(s1, dirty)
                 THEN [s1 EXCEPT !.con.shown = Frame(s1.ds.pl_ind)] ELSE s1,
                 "tail", "loop")
  /\ dirty' = FALSE

Next ==
  \/ Startup
  \/ LoopHead
  \/ \E ev \in Events : Dispatch(ev)
  \/ WaitFail
  \/ LoopTail

\* Next with the input events and the resize hints spelled out
NextInput ==
  \/ Next
  \/ \E e \in IOEvents : Input(e)
  \/ \E w \in 0 .. MaxHint, h \in 0 .. MaxHint : Hint(w, h)

Spec == Init /\ [][Next]_vars
SpecInput == InitInput /\ [][NextInput]_vars

\* main is one thread of straight-line code between its waits, so startup,
\* the head and the tail of a loop turn are taken once they are due; the
\* clock requested at lines 540-544 keeps delivering its 0xfeed tick
SpecLive ==
  /\ InitLive
  /\ [][Next]_vars
  /\ WF_vars(Startup)
  /\ WF_vars(LoopHead)
  /\ WF_vars(LoopTail)
  /\ SF_vars(Dispatch("STEPFRAME_FEED"))
SpecAuto == InitAuto /\ [][Next]_vars
SpecWide == InitWide /\ [][Next]_vars

\* ------------------------------------- set_active: resize negotiation
\* lines 263-274, one action per evaluation of the loop condition. rs.w and
\* rs.h are the decoded size, rs.dw and rs.dh the size to request next,
\* rs.iters the executions of the loop body
\* mutation: lines 270-271 decrementing instead of shifting
HalveDimByOne(d) == d - 1

\* lines 270-271: >>= 1
HalveDim(d) == d \div 2

\* line 267: dh && dh
ResizeGuard(r) == r.dh # 0 /\ r.dh # 0

\* set_active entered with a decoded, unbroken image under source_size
InitResize ==
  /\ ConfigWith(1, 1, 0, 0, FALSE, [i \in Slots(1) |-> FALSE])
  /\ pc = "set_active"
  /\ fb = NoBlit
  /\ \E w \in 0 .. MaxDim, h \in 0 .. MaxDim :
       rs = [w |-> w, h |-> h, dw |-> w, dh |-> h, iters |-> 0,
             pc |-> "while"]

\* arcan_shmif_resize accepts the request: the loop ends
ResizeAccept ==
  /\ rs.pc = "while"
  /\ ResizeGuard(rs)
  /\ rs' = [rs EXCEPT !.pc = "done"]
  /\ resized' = Append(resized, <<rs.dw, rs.dh>>)
  /\ UNCHANGED <<ds, playlist, con, pc, dirty, lastop, attempts, spawned, age,
                 fb>>

\* arcan_shmif_resize rejects the request: lines 270-271
ResizeReject ==
  /\ rs.pc = "while"
  /\ ResizeGuard(rs)
  /\ rs' = [rs EXCEPT !.dw = HalveDim(rs.dw), !.dh = HalveDim(rs.dh),
                      !.iters = @ + 1]
  /\ resized' = Append(resized, <<rs.dw, rs.dh>>)
  /\ UNCHANGED <<ds, playlist, con, pc, dirty, lastop, attempts, spawned, age,
                 fb>>

\* the loop condition fails without a request
ResizeGiveUp ==
  /\ rs.pc = "while"
  /\ ~ResizeGuard(rs)
  /\ rs' = [rs EXCEPT !.pc = "done"]
  /\ UNCHANGED resized
  /\ UNCHANGED <<ds, playlist, con, pc, dirty, lastop, attempts, spawned, age,
                 fb>>

NextResize == ResizeAccept \/ ResizeReject \/ ResizeGiveUp

\* the loop is straight-line code of one thread: it keeps running
SpecResize == InitResize /\ [][NextResize]_vars /\ WF_vars(NextResize)

\* ----------------------------------------------------- blit: pad colour
\* lines 59-66, blit called with src absent or not ready. fb.vidp is the
\* pixel array of pitch * h entries, fb.stray the indices written beyond it
\* line 62: the columns the inner loop visits
PadCols(f) == 0 .. (f.h - 1)

\* lines 62-63 for one row; an index beyond the array is an out-of-bounds
\* write, which either faults or lands outside
PadRow(f, row, ub) ==
  LET idx == {row * f.pitch + col : col \in PadCols(f)}
      stray == idx \ DOMAIN f.vidp
  IN IF stray # {} /\ ub = "fault" THEN [f EXCEPT !.pc = "fault"]
     ELSE [f EXCEPT !.vidp = [i \in DOMAIN f.vidp |->
                                IF i \in idx THEN "pad" ELSE f.vidp[i]],
                    !.stray = @ \cup stray,
                    !.row = row + 1]

\* a segment of w * h pixels, its rows pitch pixels apart, nothing drawn
InitBlit ==
  /\ ConfigWith(1, 1, 0, 0, FALSE, [i \in Slots(1) |-> FALSE])
  /\ pc = "blit"
  /\ rs = NoResize
  /\ \E w \in 1 .. MaxFb, h \in 1 .. MaxFb :
       \E pitch \in {w, w + 1} :
         fb = [w |-> w, h |-> h, pitch |-> pitch,
               vidp |-> [i \in 0 .. (pitch * h - 1) |-> "old"],
               stray |-> {}, row |-> 0, signalled |-> FALSE, pc |-> "rows"]

\* line 61, one iteration of the outer loop
BlitRow ==
  /\ fb.pc = "rows"
  /\ fb.row < fb.h
  /\ \E ub \in {"fault", "written"} : fb' = PadRow(fb, fb.row, ub)
  /\ UNCHANGED <<ds, playlist, con, pc, dirty, lastop, attempts, spawned, age,
                 rs, resized>>

\* lines 64-65: arcan_shmif_signal, return
BlitSignal ==
  /\ fb.pc = "rows"
  /\ fb.row >= fb.h
  /\ fb' = [fb EXCEPT !.signalled = TRUE, !.pc = "done"]
  /\ UNCHANGED <<ds, playlist, con, pc, dirty, lastop, attempts, spawned, age,
                 rs, resized>>

NextBlit == BlitRow \/ BlitSignal

SpecBlit == InitBlit /\ [][NextBlit]_vars

\* ================================================================ claims
\* C11: with input disabled, dispatching an input event leaves the session
\* state (and the playlist, the display session and the resize requests)
\* unchanged and reports no redraw
C11_BlockedInputIsNoOp ==
  [][(lastop' = "IO" /\ ds.non_interactive)
     => (/\ ds' = ds
         /\ playlist' = playlist
         /\ con' = con
         /\ resized' = <<>>
         /\ spawned' = <<>>
         /\ dirty' = (pc = "burst" /\ dirty))]_vars

\* C11 witness: input is disabled, an input event was dispatched as the
\* first event of a turn and other slots could have been stepped to
C11_Witness ==
  /\ lastop = "IO"
  /\ ds.non_interactive
  /\ ds.pl_size >= 2
  /\ pc = "burst"
  /\ ~dirty

Range(f) == {f[k] : k \in DOMAIN f}
Max(a, b) == IF a >= b THEN a ELSE b

\* floor(log2(n)) for n >= 1, and 0 for n = 0
RECURSIVE Log2Floor(_)
Log2Floor(n) == IF n <= 1 THEN 0 ELSE 1 + Log2Floor(n \div 2)

Outstanding == {i \in DOMAIN playlist : playlist[i].proc}

\* C12: a DISPLAYHINT issues a resize request only under server-size
\* authority; under source-size authority it issues none, changes no state
\* and reports no redraw
C12_HintOnlyUnderServerSize ==
  [][(lastop' = "DISPLAYHINT" /\ ds.source_size)
     => (/\ resized' = <<>>
         /\ ds' = ds
         /\ playlist' = playlist
         /\ con' = con
         /\ dirty' = (pc = "burst" /\ dirty))]_vars

\* C12 witness: under server-size authority a DISPLAYHINT was turned into
\* one resize request of the hinted, non-zero size
C12_Witness ==
  /\ lastop = "DISPLAYHINT"
  /\ ~ds.source_size
  /\ Len(resized) = 1
  /\ resized[1][1] > 0 /\ resized[1][2] > 0

\* C13: an exit command tears the display session down, and once it is
\* torn down the loop never waits for another event: it runs to its end
C13_ExitEndsLoop ==
  [][/\ lastop' = "EXIT" => ~con'.addr
     /\ ~con.addr => pc' \in {"loop", "done"}]_vars

\* C13 witness: the loop has ended on the dropped session with a current
\* slot still set
C13_Witness ==
  /\ pc = "done"
  /\ lastop = "head"
  /\ ~con.addr
  /\ ds.cur

\* C14: blit without a ready image paints exactly the w * h destination
\* pixels in the pad colour, writes nowhere else, and signals the frame
\* (the claim as stated)
C14_PadFillsFrame ==
  /\ fb.pc # "fault"
  /\ fb.pc = "done" =>
       /\ \A row \in 0 .. (fb.h - 1), col \in 0 .. (fb.w - 1) :
            fb.vidp[row * fb.pitch + col] = "pad"
       /\ \A i \in DOMAIN fb.vidp :
            fb.vidp[i] = "pad" => (i % fb.pitch) < fb.w
       /\ fb.stray = {}
       /\ fb.signalled

\* C15: imgload_spawn is only called for a slot without a running worker
\* (the claim as stated)
C15_NoRespawn ==
  [][\A k \in 1 .. Len(spawned') : ~playlist[spawned'[k]].proc]_vars

\* C16: whatever the workers report and whichever spawns succeed, a NEXT or
\* PREV that yields a valid index attempts the new active slot first, and
\* if that slot is idle without output, not failed, not blocked by the
\* shared stream and its spawn succeeds, it has a worker on return
C16_RequestedSlotDispatched ==
  (pc \in {"wait", "burst"} /\ con.addr) =>
    \A ev \in {"NEXT", "PREV"}, wk \in ExitChoices :
      \A sp \in SpawnChoices(wk), ub \in UBChoices :
        LET before == poll_pl(State(wk), FALSE)
            after == dispatch_event(State(wk), ev, sp, ub).s
            i == after.ds.pl_ind
        IN after.ds.cur =>
             /\ after.att # <<>>
             /\ after.att[1] = i
             /\ (/\ ~before.pl[i].out
                 /\ ~before.pl[i].proc
                 /\ before.pl[i].life >= 0
                 /\ ~(before.pl[i].is_stdin /\ before.ds.stdin_pending)
                 /\ i \in sp
                 /\ ~after.fault)
                => after.pl[i].proc

\* C16 witness: a NEXT or PREV has spawned the new active slot first
\* although the window was already full
C16_Witness ==
  /\ lastop \in {"NEXT", "PREV"}
  /\ ds.cur
  /\ spawned # <<>>
  /\ spawned[1] = ds.pl_ind
  /\ playlist[ds.pl_ind].proc
  /\ ds.wnd_pending > ds.wnd_lim
  /\ Cardinality(Outstanding) > ds.wnd_lim

\* C17: for a decoded image of non-zero size, no resize request of the
\* negotiation has a zero width or a zero height (the claim as stated)
C17_NoZeroRequest ==
  (rs.w > 0 /\ rs.h > 0) =>
    \A k \in 1 .. Len(resized) : resized[k][1] # 0 /\ resized[k][2] # 0

\* C18: the outstanding-worker count equals the number of slots with a live
\* worker (the claim as stated)
C18_PendingCountsLive == ds.wnd_pending = Cardinality(Outstanding)

\* C19: after a NEXT or PREV to a slot whose decode is still running, once
\* that decode has completed successfully the slot's image is eventually
\* drawn, unless the user steps again or the loop ends first (the claim as
\* stated)
C19_SteppedImageDrawn ==
  []((/\ lastop \in {"NEXT", "PREV"}
      /\ ds.cur
      /\ playlist[ds.pl_ind].proc)
     => []((/\ pc \in {"loop", "wait", "burst"}
            /\ con.addr
            /\ ds.cur
            /\ lastop \notin {"NEXT", "PREV"}
            /\ playlist[ds.pl_ind].ready
            /\ con.shown # Frame(ds.pl_ind))
           => <>(\/ con.shown = Frame(ds.pl_ind)
                 \/ lastop \in {"NEXT", "PREV"}
                 \/ pc \in {"done", "crashed"}
                 \/ ~con.addr)))

\* C20: once an exit command has dropped the display session, nothing is
\* done on it any more: no resize request is issued and no frame is drawn
\* (the claim as stated)
C20_NoUseAfterDrop ==
  [][(pc # "start" /\ ~con.addr)
     => (con' = con /\ resized' = <<>>)]_vars

\* C1: the outstanding-worker count never exceeds the prefetch window limit
\* (the claim as stated; the code dispatches the requested slot before it
\* looks at the window)
C1_WindowCap == ds.wnd_pending <= ds.wnd_lim

\* C2: a slot that has become PermanentlyFailed (life = -1) stays so: no
\* later handler passes it to imgload_spawn, changes its liveness, or
\* faults on it (the claim as stated)
C2_FailedStaysFailed ==
  [][\A i \in DOMAIN playlist :
       playlist[i].life = -1 =>
         /\ playlist'[i].life = -1
         /\ ~playlist'[i].proc
         /\ i \notin Range(spawned')
         /\ pc' # "crashed"]_vars

\* C3: at most one slot bound to the shared input stream has an outstanding
\* worker
C3_OneStdinWorker ==
  Cardinality({i \in Outstanding : playlist[i].is_stdin}) <= 1

\* C3 witness: a shared-stream worker is outstanding and the dispatch of
\* another shared-stream slot was attempted and refused
C3_Witness ==
  \E i, j \in DOMAIN playlist :
    /\ i # j
    /\ playlist[i].is_stdin /\ playlist[i].proc
    /\ playlist[j].is_stdin /\ ~playlist[j].out
    /\ j \in Range(attempts) /\ j \notin Range(spawned)

\* C4: NEXT on the last slot with looping disabled changes neither the
\* active index nor the current slot, dispatches nothing, and leaves the
\* loop running (the claim as stated)
C4_NextAtEndIsNoOp ==
  [][(/\ lastop' = "NEXT"
      /\ ds.cur
      /\ ~ds.loop
      /\ ds.pl_ind = ds.pl_size - 1)
     => (/\ ds'.pl_ind = ds.pl_ind
         /\ ds'.cur = ds.cur
         /\ spawned' = <<>>)]_vars

\* C5: NEXT on the last slot with looping enabled makes slot 0 active and
\* its dispatch attempts are on slots 0, 1, 2, ... in this order
C5_NextWrapsToFirst ==
  [][(/\ lastop' = "NEXT"
      /\ ds.loop
      /\ ds.pl_ind = ds.pl_size - 1)
     => (/\ ds'.pl_ind = 0
         /\ Len(attempts') >= 1
         /\ \A k \in 1 .. Len(attempts') : attempts'[k] = k - 1)]_vars

\* C5 witness: a NEXT has wrapped to slot 0 and its pass went over three
\* slots
C5_Witness ==
  /\ lastop = "NEXT"
  /\ ds.loop
  /\ ds.pl_ind = 0
  /\ ds.pl_size >= 3
  /\ Len(attempts) >= 3

\* C6: a slot whose worker has not completed within `timeout` (> 0) ticks
\* since its dispatch is PermanentlyFailed (the claim as stated)
C6_TimeoutAfterTicks ==
  \A i \in DOMAIN playlist :
    (ds.timeout > 0 /\ age[i] >= ds.timeout) => playlist[i].life = -1

\* C7: 3 slots, window 2: startup with every spawn succeeding dispatches
\* slots 0 and 1 and leaves slot 2 idle, and while the workers of slots 0
\* and 1 are both still running no event dispatches slot 2 (the claim as
\* stated)
C7_ThirdSlotWaits ==
  [][(ds.pl_size = 3 /\ ds.wnd_lim = 2)
     => /\ (/\ lastop' = "startup"
            /\ \A k \in Range(spawned') : playlist'[k].proc)
           => (/\ playlist'[0].proc
               /\ playlist'[1].proc
               /\ ~playlist'[2].out)
        /\ (/\ playlist[0].proc /\ playlist'[0].proc
            /\ playlist[1].proc /\ playlist'[1].proc
            /\ ~playlist[2].out)
           => ~playlist'[2].proc]_vars

\* C8: with auto-advance configured, a step tick decrements the step
\* counter, and on reaching zero the counter is reset to the period and
\* set_playlist_pos(pl_ind + 1) runs (the claim as stated)
C8_TickCountsDown ==
  [][(lastop' = "STEPFRAME_FEED" /\ ds.init_timer > 0)
     => IF ds.step_timer > 1
        THEN ds'.step_timer = ds.step_timer - 1
        ELSE /\ ds'.step_timer = ds.init_timer
             /\ (attempts' # <<>> \/ ~ds'.cur)]_vars

\* C9: the active index is always inside the playlist
C9_ActiveIndexInRange == ds.pl_ind >= 0 /\ ds.pl_ind < ds.pl_size

\* C9 witness: PREV from slot 0 has wrapped to the last slot
C9_Witness ==
  /\ lastop = "PREV"
  /\ ds.pl_size >= 2
  /\ ds.pl_ind = ds.pl_size - 1
  /\ attempts # <<>>

\* C10 as stated: the halving loop runs at most log2(max(w, h)) times
C10_WithinLog2 == rs.iters <= Log2Floor(Max(rs.w, rs.h))

\* C10 amended: the halving loop terminates, after at most
\* floor(log2(max(w, h))) + 1 executions of its body (none when the larger
\* dimension is 0)
C10_TerminatesWithinLog2Plus1 ==
  /\ <>(rs.pc = "done")
  /\ [](rs.iters <= IF Max(rs.w, rs.h) = 0 THEN 0
                    ELSE Log2Floor(Max(rs.w, rs.h)) + 1)

\* C10 witness: every request was rejected until the height was used up,
\* which took one halving more than log2 of the larger dimension
C10_Witness ==
  /\ rs.pc = "done"
  /\ rs.dh = 0
  /\ rs.h >= 2
  /\ rs.iters = Log2Floor(Max(rs.w, rs.h)) + 1

====
